---- MODULE Spec2Model ----
(***************************************************************************)
(* reddsaver, src/user.rs: the paginated retrieval loop User::saved, and  *)
(* the single-shot User::unsave (specification UnsaveSpec).                *)
(*                                                                         *)
(* One call of saved() runs against a server that answers every request    *)
(* with a response of its own choosing.  The two await points of the loop  *)
(* body (send().await and json().await) are the places where the call can  *)
(* be suspended, so the call has four positions: at the loop head, waiting *)
(* for the response head, waiting for the decoded body, and returned.      *)
(*                                                                         *)
(* Cursor tokens are opaque and taken to be URL-safe, as the fullnames the *)
(* service hands out are; format!("...?after={}") then inserts the token   *)
(* verbatim as the value of the after parameter.                           *)
(* The item counter is modelled as an unbounded integer: the width of dist *)
(* is declared in structures.rs, outside this file.                        *)
(***************************************************************************)
EXTENDS Integers, Sequences, FiniteSets, TLC

\* ---------------------------------------------------------------- bounds
MaxPages == 3        \* requests the server is willing to answer in one run
MaxDist == 2         \* largest item count of one page

\* ------------------------------------------------------------- constants
Limit == 100         \* .query(&[("limit", 100)])

\* --------------------------------------------------------------- domains
Cursors == {"t1", "t2"}

\* Option<T>: None is the empty sequence, Some(x) the one-element sequence.
None == <<>>
Some(x) == <<x>>
IsNone(o) == o = None
IsSome(o) == o # None
Unwrap(o) == o[1]
Option(S) == {None} \cup {Some(x) : x \in S}

Names == {"alice"}
Tokens == {"tokenA", "tokenB"}

\* UserSaved as the loop reads it: data.dist and data.after.
UserSaved == [data : [dist : 0..MaxDist, after : Option(Cursors)]]

\* What the server can do with one request: break the connection, or answer
\* with a status line and a body; the body is a listing document or
\* something that does not decode as one.
Statuses == {200, 500}
Bodies == [listing : {FALSE}]
          \cup [listing : {TRUE}, data : [dist : 0..MaxDist,
                                          after : Option(Cursors)]]
Responses == [kind : {"neterr"}]
             \cup [kind : {"http"}, status : Statuses, body : Bodies]

VARIABLES
  self,        \* the User: auth.access_token and name
  pc,          \* "loop", "send", "json", "done"
  complete,    \* let mut complete
  processed,   \* let mut processed
  after,       \* let mut after: Option<String>
  saved,       \* let mut saved: Vec<UserSaved>
  response,    \* the response whose body is being decoded (None otherwise)
  result,      \* what the call returned: None while it runs
  requests,    \* history: every request issued, in order
  responses,   \* history: every answer of the server, in order
  fetched,     \* history: every page decoded, in order
  call,        \* the method called on the User, with its argument
  server       \* how the server picks its answers

vars == <<self, pc, complete, processed, after, saved, response, result,
          requests, responses, fetched, call, server>>

\* ------------------------------------------------------ the loop's pieces

\* let url = if processed == 0 { .../saved } else { .../saved?after={} }
\* The URL is kept as its parts: the account name in the path and the after
\* parameter of the query string.  The else branch unwraps the cursor.
Url(name, proc, cur) ==
  IF proc = 0
    THEN [panic |-> FALSE, name |-> name, after |-> None]
    ELSE IF IsNone(cur)
      THEN [panic |-> TRUE, name |-> name, after |-> None]
      ELSE [panic |-> FALSE, name |-> name, after |-> Some(Unwrap(cur))]

\* A plausible slip: the page size is set on the first request only, and
\* the requests that carry a cursor fall back to the service's default.
Request_limitFirstOnly(url, token) ==
  [method |-> "GET", name |-> url.name, after |-> url.after,
   bearer |-> token, limit |-> IF IsNone(url.after) THEN 100 ELSE 25]

\* A plausible change: the token is renewed between pages, so the requests
\* with a cursor carry another token than the first.
Request_refreshed(url, token) ==
  [method |-> "GET", name |-> url.name, after |-> url.after,
   bearer |-> IF IsSome(url.after) THEN "renewed" ELSE token,
   limit |-> Limit]

\* client.get(&url).bearer_auth(..).header(USER_AGENT, ..).query(limit)
Request(url, token) ==
  [method |-> "GET", name |-> url.name, after |-> url.after,
   bearer |-> token, limit |-> Limit]

\* send().await: Err for a transport failure, Ok(response) for every
\* response the server sends, whatever its status (there is no
\* error_for_status() in the chain).
SendResult(r) ==
  IF r.kind = "neterr"
    THEN [ok |-> FALSE, error |-> "transport"]
    ELSE [ok |-> TRUE, value |-> r]

\* json::<UserSaved>().await: Err when the body is no listing document.
JsonResult(r) ==
  IF r.body.listing
    THEN [ok |-> TRUE, value |-> [data |-> r.body.data]]
    ELSE [ok |-> FALSE, error |-> "decode"]

\* A plausible slip: the loop stops at the first failure and hands back what
\* it has collected.
Propagate_partial(e, vec) == [kind |-> "Ok", value |-> vec]

\* The `?` operator on an Err: the function returns Err(e.into()) and the
\* locals, the vector of pages among them, are dropped.
Propagate(e, vec) == [kind |-> "Err", error |-> e]

\* Ok(saved)
ReturnOk(v) == [kind |-> "Ok", value |-> v]

\* A plausible slip: = in place of +=.
AddProcessed_overwrite(proc, page) == page.data.dist

\* processed += response.borrow().data.dist
AddProcessed(proc, page) == proc + page.data.dist

\* A plausible slip: insert(0, response), the newest page first.
Push_front(vec, page) == <<page>> \o vec

\* A plausible slip: a page equal to one already collected is skipped.
Push_dedup(vec, page) ==
  IF \E i \in 1..Len(vec) : vec[i] = page THEN vec ELSE Append(vec, page)

\* saved.push(response)
Push(vec, page) == Append(vec, page)

\* A plausible slip: the terminal branch forgets complete = true.
Collect_neverComplete(st, page) ==
  IF IsNone(page.data.after)
    THEN [complete |-> st.complete, after |-> st.after,
          saved |-> Push(st.saved, page)]
    ELSE [complete |-> st.complete, after |-> page.data.after,
          saved |-> Push(st.saved, page)]

\* A plausible slip: the terminal branch forgets saved.push(response).
Collect_dropTerminal(st, page) ==
  IF IsNone(page.data.after)
    THEN [complete |-> TRUE, after |-> st.after, saved |-> st.saved]
    ELSE [complete |-> st.complete, after |-> page.data.after,
          saved |-> Push(st.saved, page)]

\* A plausible slip: after = response.data.after.clone() is done before the
\* test, so the terminal page wipes the stored cursor.
Collect_clearOnTerminal(st, page) ==
  IF IsNone(page.data.after)
    THEN [complete |-> TRUE, after |-> page.data.after,
          saved |-> Push(st.saved, page)]
    ELSE [complete |-> st.complete, after |-> page.data.after,
          saved |-> Push(st.saved, page)]

\* A plausible change: a safety cap, the loop ends after two pages.
Collect_capped(st, page) ==
  IF IsNone(page.data.after) \/ Len(st.saved) + 1 >= 2
    THEN [complete |-> TRUE, after |-> st.after,
          saved |-> Push(st.saved, page)]
    ELSE [complete |-> st.complete, after |-> page.data.after,
          saved |-> Push(st.saved, page)]

\* if response.data.after.is_none() { push; complete = true }
\* else { after = response.data.after.clone(); push }
Collect(st, page) ==
  IF IsNone(page.data.after)
    THEN [complete |-> TRUE, after |-> st.after,
          saved |-> Push(st.saved, page)]
    ELSE [complete |-> st.complete, after |-> page.data.after,
          saved |-> Push(st.saved, page)]

\* The server of the general runs answers every request as it likes.
AnyServer == [keyed |-> FALSE]

\* A cursor-keyed server holds one page per cursor, the absent cursor
\* included, and answers a request with the page of the cursor it carries.
KeyedServers ==
  [keyed : {TRUE},
   page : [Option(Cursors) -> [dist : 0..MaxDist, after : Option(Cursors)]]]

\* What the server may answer to the request just issued.  The keyed server
\* sends the page of the request's cursor; the connection may still break
\* and the body may still arrive damaged.
Answers(srv, reqs) ==
  IF srv.keyed
    THEN {[kind |-> "neterr"],
          [kind |-> "http", status |-> 200, body |-> [listing |-> FALSE]],
          [kind |-> "http", status |-> 200,
           body |-> [listing |-> TRUE,
                     data |-> srv.page[reqs[Len(reqs)].after]]]}
    ELSE Responses

\* ------------------------------------------------------------------ Init
Init ==
  /\ self \in [auth : [access_token : Tokens], name : Names]
  /\ call = [op |-> "saved"]
  /\ server = AnyServer
  /\ pc = "loop"
  /\ complete = FALSE
  /\ processed = 0
  /\ after = None
  /\ saved = <<>>
  /\ response = None
  /\ result = None
  /\ requests = <<>>
  /\ responses = <<>>
  /\ fetched = <<>>

\* The call of saved() against a cursor-keyed server.
KeyedInit ==
  /\ self \in [auth : [access_token : Tokens], name : Names]
  /\ call = [op |-> "saved"]
  /\ server \in KeyedServers
  /\ pc = "loop"
  /\ complete = FALSE
  /\ processed = 0
  /\ after = None
  /\ saved = <<>>
  /\ response = None
  /\ result = None
  /\ requests = <<>>
  /\ responses = <<>>
  /\ fetched = <<>>

\* --------------------------------------------------------------- actions

\* while !complete { let url = ...; client.get(&url)....send()
Send ==
  /\ pc = "loop"
  /\ ~complete
  /\ Len(requests) < MaxPages
  /\ LET url == Url(self.name, processed, after) IN
       IF url.panic
         THEN /\ pc' = "done"
              /\ result' = Some([kind |-> "Panic"])
              /\ UNCHANGED requests
         ELSE /\ pc' = "send"
              /\ requests' = Append(requests,
                                    Request(url, self.auth.access_token))
              /\ UNCHANGED result
  /\ UNCHANGED <<self, complete, processed, after, saved, response, responses,
                 fetched,
                 call, server>>

\* .send().await? with a transport failure
SendErr ==
  /\ pc = "send"
  /\ \E r \in Answers(server, requests) :
       /\ ~SendResult(r).ok
       /\ responses' = Append(responses, r)
       /\ result' = Some(Propagate(SendResult(r).error, saved))
  /\ pc' = "done"
  /\ UNCHANGED <<self, complete, processed, after, saved, response, requests,
                 fetched,
                 call, server>>

\* .send().await? with a response
SendOk ==
  /\ pc = "send"
  /\ \E r \in Answers(server, requests) :
       /\ SendResult(r).ok
       /\ responses' = Append(responses, r)
       /\ response' = Some(SendResult(r).value)
  /\ pc' = "json"
  /\ UNCHANGED <<self, complete, processed, after, saved, result, requests,
                 fetched,
                 call, server>>

\* A plausible slip: a body that does not decode is skipped and the loop
\* asks again.
JsonErr_continue ==
  /\ pc = "json"
  /\ ~JsonResult(Unwrap(response)).ok
  /\ response' = None
  /\ pc' = "loop"
  /\ UNCHANGED <<self, complete, processed, after, saved, result, requests,
                 responses, fetched, call, server>>

\* .json::<UserSaved>().await? with a body that does not decode
JsonErr ==
  /\ pc = "json"
  /\ ~JsonResult(Unwrap(response)).ok
  /\ result' = Some(Propagate(JsonResult(Unwrap(response)).error,
                             saved))
  /\ response' = None
  /\ pc' = "done"
  /\ UNCHANGED <<self, complete, processed, after, saved, requests, responses,
                 fetched,
                 call, server>>

\* .json::<UserSaved>().await? with a page, and the rest of the loop body
JsonOk ==
  /\ pc = "json"
  /\ JsonResult(Unwrap(response)).ok
  /\ LET page == JsonResult(Unwrap(response)).value
         st == Collect([complete |-> complete, after |-> after,
                        saved |-> saved], page)
     IN /\ processed' = AddProcessed(processed, page)
        /\ complete' = st.complete
        /\ after' = st.after
        /\ saved' = st.saved
        /\ fetched' = Append(fetched, page)
  /\ response' = None
  /\ pc' = "loop"
  /\ UNCHANGED <<self, result, requests, responses,
                 call, server>>

\* the loop condition fails: Ok(saved)
Return ==
  /\ pc = "loop"
  /\ complete
  /\ result' = Some(ReturnOk(saved))
  /\ pc' = "done"
  /\ UNCHANGED <<self, complete, processed, after, saved, response,
                 requests, responses,
                 fetched,
                 call, server>>

Next == Send \/ SendErr \/ SendOk \/ JsonErr \/ JsonOk \/ Return

Spec == Init /\ [][Next]_vars

\* The executor polls the future to completion and the server answers every
\* request it has accepted.
FairSpec == Spec /\ WF_vars(Next)

KeyedSpec == KeyedInit /\ [][Next]_vars

\* ---------------------------------------------------------------- unsave

\* The fullnames unsave() is called with.
Ids == {"t3_a", "t3_b", "t1_c"}

\* let mut map = HashMap::new(); map.insert("id", name);
UnsaveForm(name) == [id |-> name]

\* client.post(&url).bearer_auth(..).header(USER_AGENT, ..).form(&map)
UnsaveRequest(form, token) ==
  [method |-> "POST", path |-> "/api/unsave", bearer |-> token,
   form |-> form]

\* Ok(())
Unit == <<>>

UnsaveInit ==
  /\ self \in [auth : [access_token : Tokens], name : Names]
  /\ call \in [op : {"unsave"}, name : Ids]
  /\ server = AnyServer
  /\ pc = "unsave"
  /\ complete = FALSE
  /\ processed = 0
  /\ after = None
  /\ saved = <<>>
  /\ response = None
  /\ result = None
  /\ requests = <<>>
  /\ responses = <<>>
  /\ fetched = <<>>

\* client.post(&url)....form(&map).send()
UnsaveSend ==
  /\ pc = "unsave"
  /\ requests' = Append(requests,
                        UnsaveRequest(UnsaveForm(call.name),
                                      self.auth.access_token))
  /\ pc' = "send"
  /\ UNCHANGED <<self, complete, processed, after, saved, response, result,
                 responses, fetched, call, server>>

\* .send().await? with a transport failure
UnsaveSendErr ==
  /\ pc = "send"
  /\ \E r \in Answers(server, requests) :
       /\ ~SendResult(r).ok
       /\ responses' = Append(responses, r)
       /\ result' = Some(Propagate(SendResult(r).error, saved))
  /\ pc' = "done"
  /\ UNCHANGED <<self, complete, processed, after, saved, response,
                 requests, fetched, call, server>>

\* .send().await? with a response; debug!(..); Ok(())
UnsaveSendOk ==
  /\ pc = "send"
  /\ \E r \in Answers(server, requests) :
       /\ SendResult(r).ok
       /\ responses' = Append(responses, r)
  /\ result' = Some(ReturnOk(Unit))
  /\ pc' = "done"
  /\ UNCHANGED <<self, complete, processed, after, saved, response,
                 requests, fetched, call, server>>

UnsaveNext == UnsaveSend \/ UnsaveSendErr \/ UnsaveSendOk

UnsaveSpec == UnsaveInit /\ [][UnsaveNext]_vars

\* ---------------------------------------------------------------- claims

Returned == pc = "done"
IsSuccessStatus(s) == s \in 200..299
ReturnedOk == pc = "done" /\ result # None /\ Unwrap(result).kind = "Ok"
ReturnedErr == pc = "done" /\ result # None /\ Unwrap(result).kind = "Err"

\* C1: request 1 carries no after parameter, and for every i >= 1 whose page
\* has a next cursor, request i+1 carries after equal to that cursor, the
\* pages with item count 0 included.
C1_CursorForwarding ==
  \A i \in 1..Len(requests) :
    /\ i = 1 => IsNone(requests[i].after)
    /\ (i > 1 /\ IsSome(fetched[i - 1].data.after))
         => requests[i].after = fetched[i - 1].data.after

\* The page the server put into its i-th answer.
Sent(i) == [data |-> responses[i].body.data]
IsPage(r) == r.kind = "http" /\ r.body.listing
SentPages == [i \in 1..Len(responses) |-> Sent(i)]

\* The server has delivered the last page of a well-formed run: every answer
\* so far is a 2xx listing document, all but the last with a cursor.
TerminalDelivered ==
  /\ Len(responses) >= 1
  /\ \A i \in 1..Len(responses) :
       /\ IsPage(responses[i])
       /\ IsSuccessStatus(responses[i].status)
       /\ IsNone(Sent(i).data.after) <=> i = Len(responses)

\* C2: when the server answers n requests without failure, the first n-1
\* pages with a next cursor and the n-th without, saved() eventually
\* returns Ok with exactly those n pages in fetch order: from the delivery
\* of the n-th page on no further request is made, and the call reaches
\* Ok with the pages the server sent.
C2_Termination ==
  /\ [][TerminalDelivered
          => (requests' = requests /\ responses' = responses)]_vars
  /\ TerminalDelivered
       ~> (ReturnedOk /\ Unwrap(result).value = SentPages)

C2_Witness ==
  /\ ReturnedOk
  /\ Len(Unwrap(result).value) = MaxPages
  /\ \A i \in 1..Len(responses) : IsSuccessStatus(responses[i].status)

\* Request i fails: the connection breaks, or the body is no listing
\* document.
Fails(r) == IF r.kind = "neterr" THEN TRUE ELSE ~r.body.listing

\* C3: when request i fails in transport or in decoding, request i+1 is
\* never issued, the call does not go on with the loop, and what it returns
\* is an error that carries none of the pages collected from requests
\* 1..i-1.
C3_FailFast ==
  \A i \in 1..Len(responses) :
    Fails(responses[i])
      => /\ Len(requests) = i
         /\ Len(responses) = i
         /\ pc \in {"json", "done"}
         /\ pc = "json" => IsNone(result)
         /\ pc = "done" => /\ ReturnedErr
                           /\ DOMAIN Unwrap(result) = {"kind", "error"}

C3_Witness ==
  /\ ReturnedErr
  /\ Len(responses) = MaxPages
  /\ Fails(responses[MaxPages])
  /\ Len(saved) = MaxPages - 1

\* C4: a response with a non-2xx status to request i, whatever its body,
\* makes the call return an error and no result set, with exactly i
\* requests issued.
C4_Non2xxIsError ==
  \A i \in 1..Len(responses) :
    (responses[i].kind = "http" /\ ~IsSuccessStatus(responses[i].status))
      => /\ Len(requests) = i
         /\ pc \in {"json", "done"}
         /\ pc = "done" => ReturnedErr

\* The first answer is a 2xx listing document with no items and no cursor.
EmptyPage == [data |-> [dist |-> 0, after |-> None]]
EmptyFirst ==
  /\ Len(responses) >= 1
  /\ IsPage(responses[1])
  /\ IsSuccessStatus(responses[1].status)
  /\ Sent(1) = EmptyPage

\* C5: when the first page has item count 0 and no next cursor, exactly one
\* request is issued, the loop does not run again, and the call returns Ok
\* with a result set of exactly that one empty page.
C5_EmptyResult ==
  EmptyFirst
    => /\ Len(requests) = 1
       /\ Len(responses) = 1
       /\ pc \in {"json", "loop", "done"}
       /\ pc = "loop" => (complete /\ saved = <<EmptyPage>>)
       /\ pc = "done" => (ReturnedOk
                          /\ Unwrap(result).value = <<EmptyPage>>)

C5_Witness == EmptyFirst /\ ReturnedOk /\ Len(Unwrap(result).value) = 1

\* C6: the page without a next cursor is appended to the result before the
\* loop exits and no request follows it; so an Ok result ends with a page
\* without a cursor and every earlier page of it has one.
C6_TerminalRetained ==
  /\ \A i \in 1..Len(fetched) :
       IsNone(fetched[i].data.after)
         => /\ i = Len(fetched)
            /\ Len(requests) = i
            /\ complete
            /\ Len(saved) = i
            /\ saved[i] = fetched[i]
  /\ ReturnedOk
       => LET v == Unwrap(result).value IN
            /\ Len(v) >= 1
            /\ \A j \in 1..Len(v) : IsNone(v[j].data.after) <=> j = Len(v)

C6_Witness ==
  /\ ReturnedOk
  /\ Len(Unwrap(result).value) = 2
  /\ IsNone(Unwrap(result).value[2].data.after)
  /\ Unwrap(result).value[2].data.dist > 0

IsPrefix(s, t) == Len(s) <= Len(t) /\ SubSeq(t, 1, Len(s)) = s

\* C7: the accumulated result is always exactly the pages decoded so far, in
\* fetch order, and it only ever grows at its end: a page once appended
\* is never moved, replaced or removed.
C7_ResultOrdering ==
  /\ [](saved = fetched)
  /\ [][IsPrefix(saved, saved')]_vars

C7_Witness ==
  /\ Len(saved) = MaxPages
  /\ saved[1] # saved[2]
  /\ saved[2] # saved[3]

RECURSIVE SumDist(_)
SumDist(pages) ==
  IF pages = <<>> THEN 0
  ELSE pages[1].data.dist + SumDist(Tail(pages))

\* C8: the processed counter starts at 0, equals the sum of the item counts
\* of the pages decoded so far, and a step changes it only by adding the
\* item count of the page decoded in that step.
C8_CountAccumulation ==
  /\ [](processed = SumDist(fetched))
  /\ [][processed' # processed
         => /\ Len(fetched') = Len(fetched) + 1
            /\ processed' =
                 processed + fetched'[Len(fetched')].data.dist]_vars

C8_Witness ==
  /\ Len(fetched) = MaxPages
  /\ processed = 2 * MaxDist + 1
  /\ fetched[1].data.dist = MaxDist

\* The answers that have been decoded into a page.
Decoded ==
  {i \in 1..Len(responses) :
     IsPage(responses[i]) /\ (i < Len(responses) \/ pc # "json")}

\* C9: every page is appended exactly as decoded and none is dropped as a
\* duplicate: the result has one entry per successful response, each equal
\* to what the server sent, also when pages repeat.
C9_NoDedup ==
  /\ Len(saved) = Cardinality(Decoded)
  /\ \A i \in 1..Len(saved) : saved[i] = Sent(i)

C9_Witness ==
  /\ Len(saved) = MaxPages
  /\ saved[1] = saved[2]
  /\ responses[1] = responses[2]

\* C10: every listing request, with or without a cursor, carries limit 100.
C10_PageSize ==
  \A i \in 1..Len(requests) : requests[i].limit = 100

C10_Witness ==
  /\ Len(requests) = MaxPages
  /\ IsNone(requests[1].after)
  /\ IsSome(requests[2].after)
  /\ requests[MaxPages].after # requests[2].after
  /\ processed > 0

\* An error response: a client or server error status.
IsErrorStatus(s) == s \in 400..599

\* C11: unsave() issues exactly one POST whose form holds the single field
\* id, and it returns Ok exactly when the server sent a response with a
\* non-error status; an error status or a transport failure gives an error.
C11_UnsaveContract ==
  Returned
    => /\ Len(requests) = 1
       /\ requests[1].method = "POST"
       /\ requests[1].form = [id |-> call.name]
       /\ Len(responses) = 1
       /\ Unwrap(result).kind = "Ok"
            <=> (responses[1].kind = "http"
                 /\ ~IsErrorStatus(responses[1].status))

\* C12: at most one page request is in flight at any time, and a request is
\* issued only when every earlier one has been answered and decoded into a
\* page; requests are added one at a time, at the end of the history.
C12_Sequential ==
  /\ [](/\ Len(requests) - Len(responses) \in {0, 1}
        /\ Len(requests) - Len(responses) = 1 <=> pc = "send")
  /\ [][requests' # requests
         => /\ Len(responses) = Len(requests)
            /\ Len(fetched) = Len(requests)
            /\ Len(requests') = Len(requests) + 1
            /\ SubSeq(requests', 1, Len(requests)) = requests]_vars

C12_Witness ==
  /\ pc = "send"
  /\ Len(requests) = MaxPages
  /\ Len(fetched) = MaxPages - 1

\* The next cursor of the most recent page that has one, None if there is
\* no such page.
RECURSIVE LastCursor(_)
LastCursor(pages) ==
  IF pages = <<>> THEN None
  ELSE IF IsSome(pages[Len(pages)].data.after)
    THEN pages[Len(pages)].data.after
    ELSE LastCursor(SubSeq(pages, 1, Len(pages) - 1))

\* C13: the stored cursor is absent until the first page is decoded; a page
\* with a next cursor sets it to exactly that cursor and a terminal page
\* leaves it as it was; so it always equals the next cursor of the most
\* recent non-terminal page, or is absent when there is none.
C13_CursorState ==
  /\ [](after = LastCursor(fetched))
  /\ [](fetched = <<>> => IsNone(after))
  /\ [][IF fetched' # fetched
          THEN LET page == fetched'[Len(fetched')] IN
                 IF IsNone(page.data.after)
                   THEN after' = after
                   ELSE after' = page.data.after
          ELSE after' = after]_vars

C13_Witness ==
  /\ Returned
  /\ Len(fetched) = MaxPages
  /\ IsSome(fetched[1].data.after)
  /\ fetched[2].data.after # fetched[1].data.after
  /\ IsNone(fetched[MaxPages].data.after)
  /\ after = fetched[MaxPages - 1].data.after

\* The server has not failed and every page it sent has a next cursor.
AllPresent ==
  \A i \in 1..Len(responses) :
    IsPage(responses[i]) /\ IsSome(Sent(i).data.after)

\* C14: the loop has no iteration bound.  It ends only on a page without a
\* next cursor or on a failed request; while the server does not fail and
\* every page has a next cursor the call does not return, every page so
\* far is in the result, and at the loop head the next request is ready to
\* go (here: up to the number of requests the server answers).
C14_NoIterationBound ==
  /\ AllPresent
       => /\ ~Returned
          /\ ~complete
          /\ pc = "loop"
               => /\ Len(requests) = Len(responses)
                  /\ Len(saved) = Len(responses)
                  /\ Len(requests) < MaxPages => ENABLED Send
  /\ Returned
       => /\ Len(responses) >= 1
          /\ \/ ReturnedErr /\ Fails(responses[Len(responses)])
             \/ /\ ReturnedOk
                /\ Len(fetched) >= 1
                /\ IsNone(fetched[Len(fetched)].data.after)

C14_Witness ==
  /\ AllPresent
  /\ pc = "loop"
  /\ Len(requests) = MaxPages
  /\ Len(saved) = MaxPages

\* C15: every request of the call carries the bearer token and the account
\* name the User holds, and no step changes the User: the token and the
\* name are those of the call's start on the Ok and on the error path.
C15_TokenReadOnly ==
  /\ [](\A i \in 1..Len(requests) :
          /\ requests[i].bearer = self.auth.access_token
          /\ requests[i].name = self.name)
  /\ [][self' = self]_vars

C15_Witness ==
  /\ ReturnedErr
  /\ Len(requests) = MaxPages
  /\ self.auth.access_token = "tokenB"
  /\ IsSome(requests[MaxPages].after)

\* C16: the number of requests issued is the length of the result or one
\* more, one more exactly while a request is in flight or after it has
\* failed; an Ok return has as many pages as requests were issued.
C16_Accounting ==
  /\ Len(requests) \in {Len(saved), Len(saved) + 1}
  /\ Len(requests) = Len(saved) + 1
       <=> (pc \in {"send", "json"} \/ ReturnedErr)
  /\ ReturnedOk => Len(requests) = Len(Unwrap(result).value)

C16_Witness ==
  /\ ReturnedOk
  /\ Len(requests) = 3
  /\ Len(Unwrap(result).value) = 3
  /\ requests[2].after = Some("t1")
  /\ requests[3].after = Some("t2")
  /\ processed = 2 * MaxDist

\* C17: the cursor unwrap never fails.  Whenever the loop is about to build
\* a URL with the after parameter (the counter is not 0) the stored cursor
\* is present, and the call ends only with Ok or with a propagated error,
\* never with a panic.
C17_UnwrapSafe ==
  /\ (pc = "loop" /\ ~complete)
       => /\ processed # 0 => IsSome(after)
          /\ ~Url(self.name, processed, after).panic
  /\ Returned => Unwrap(result).kind \in {"Ok", "Err"}

C17_Witness ==
  /\ pc = "send"
  /\ Len(requests) = MaxPages
  /\ processed # 0
  /\ requests[MaxPages].after = after
  /\ IsSome(after)

\* The pages of the keyed server's chain from cursor cur on, up to its
\* terminal page, at most fuel of them.
RECURSIVE Chain(_, _, _)
Chain(srv, cur, fuel) ==
  IF fuel = 0 THEN <<>>
  ELSE LET page == [data |-> srv.page[cur]] IN
         IF IsNone(page.data.after) THEN <<page>>
         ELSE <<page>> \o Chain(srv, page.data.after, fuel - 1)

ChainFromStart == Chain(server, None, MaxPages)

\* The chain from the absent cursor ends in a terminal page within the
\* requests the run allows.
ChainEnds ==
  /\ server.keyed
  /\ IsNone(ChainFromStart[Len(ChainFromStart)].data.after)

\* The cursor request i has to carry to ask for link i of the chain.
LinkCursor(i) == IF i = 1 THEN None ELSE ChainFromStart[i - 1].data.after

\* C18: against a cursor-keyed server whose chain from the absent cursor
\* ends after k pages, and with no failure, saved() issues at most k
\* requests, request i for link i of the chain, no cursor twice, and it
\* returns Ok with exactly the k pages of the chain, whatever the item
\* counts, 0 included.
C18_KeyedProgress ==
  (ChainEnds /\ \A i \in 1..Len(responses) : ~Fails(responses[i]))
    => /\ Len(requests) <= Len(ChainFromStart)
       /\ \A i \in 1..Len(requests) :
            /\ i <= Len(ChainFromStart) => requests[i].after = LinkCursor(i)
            /\ \A j \in 1..Len(requests) :
                 i # j => requests[i].after # requests[j].after
       /\ Returned => (ReturnedOk /\ Unwrap(result).value = ChainFromStart)

====
